---- MODULE Spec2Model ----
(***************************************************************************)
(* Pricing and discount engine of src/algorthims.py (PricingEngine and the  *)
(* entities it works on) and the transaction store of                       *)
(* src/QuanLyChiTieu.py (FinanceApp), as state machines.                    *)
(*                                                                          *)
(* Money is an integer number of currency units.  Every price of the model  *)
(* is a multiple of 100,000, every fixed amount and cap a multiple of 1,000 *)
(* and every percentage an integer, so that each product-and-quotient of    *)
(* the pipeline (x * p / 100, x * 0.1) is an exact integer: the model does  *)
(* the code's arithmetic exactly and leaves binary floating-point rounding  *)
(* aside there.  Weights are whole kilograms.  The loyalty points, whose    *)
(* multipliers have no exact binary value, are computed in the arithmetic   *)
(* of the floats.                                                           *)
(***************************************************************************)
EXTENDS Integers, Sequences, FiniteSets

VARIABLES
    discount_rules,           \* PricingEngine.discount_rules
    added,                    \* the rules passed to add_discount_rule so far, in
                              \* call order
    clock,                    \* the value datetime.now() returns when read
    pc,                       \* position of the caller: "idle", "select", "done"
    cart_items,               \* calculate_final_price: argument cart_items
    customer,                 \* calculate_final_price: argument customer
    apply_customer_discount,  \* calculate_final_price: argument
    item_idx,                 \* index of `item` in `for item in cart_items`
    rule_idx,                 \* index of `rule` in `for rule in self.discount_rules`
    best_discount,            \* local of calculate_best_discount_combination
    best_rule,                \* local: index of the rule held, 0 for None
    results,                  \* local `results` of calculate_best_discount_combination
    reads,                    \* the clock values read by is_active in this call
    credited,                 \* per finished item, <<best_discount, best_rule>>
    ret,                      \* what calculate_final_price returned
    prev,                     \* what the preceding call returned, when it had the
                              \* same arguments and rule list as this one
    item_call,                \* one direct call of calculate_item_discount
    ship_call,                \* one direct call of calculate_shipping_fee
    calls,                    \* per concurrent caller: its call of
                              \* calculate_final_price (position, arguments, locals)
    call_results,             \* the dicts `results` of the concurrent calls
    points_call,              \* one direct call of loyalty_point_calculation
    transactions,             \* FinanceApp.transactions
    data_file,                \* the file DATA_FILE
    last_op                   \* the last operation of FinanceApp that ran

vars == <<discount_rules, added, clock, pc, cart_items, customer, apply_customer_discount,
          item_idx, rule_idx, best_discount, best_rule, results, reads, credited,
          ret, prev, item_call, ship_call, calls, call_results, points_call,
          transactions, data_file, last_op>>

\* the variables that the engine's rule list, its clock and the calls of
\* calculate_item_discount and calculate_final_price leave alone
finance_vars == <<transactions, data_file, last_op>>

other_vars == <<ship_call, calls, call_results, points_call, finance_vars>>

----------------------------------------------------------------------------
(* Bounds of the model. *)

MaxRules == 2      \* longest rule list add_discount_rule builds
MaxItems == 2      \* longest cart
MaxTime == 1       \* the clock runs over 0 .. MaxTime
MaxWeight == 8     \* heaviest parcel of a direct call of calculate_shipping_fee
MaxCallers == 2    \* callers that share the engine concurrently
MaxTransactions == 3   \* most transactions FinanceApp stores
MaxId == 4             \* largest transaction id FinanceApp hands out

----------------------------------------------------------------------------
(* Entities. *)

\* float('inf'): larger than every amount of the model
Inf == 2000000000

\* None, for the optional start_date and end_date
NoDate == -1

DiscountType == {"percentage", "fixed_amount", "buy_x_get_y", "tiered", "bundle"}

CustomerTier == {"bronze", "silver", "gold", "platinum", "vip"}

Product(id, name, price, category, weight) ==
    [id |-> id, name |-> name, price |-> price, category |-> category, weight |-> weight]

CartItem(product, quantity) == [product |-> product, quantity |-> quantity]

\* CartItem.subtotal
subtotal(cart_item) == cart_item.product.price * cart_item.quantity

\* DiscountRule with the defaults of its dataclass fields
DiscountRule(name, discount_type, value) ==
    [name |-> name, discount_type |-> discount_type, value |-> value,
     min_quantity |-> 0, min_amount |-> 0, max_discount |-> Inf,
     applicable_categories |-> {}, applicable_products |-> {},
     customer_tiers |-> {}, start_date |-> NoDate, end_date |-> NoDate,
     buy_quantity |-> 0, get_quantity |-> 0, tier_thresholds |-> {}]

Customer(tier) == [tier |-> tier]

\* DiscountRule.is_active, with `now` the value datetime.now() returned
is_active_no_end_check(rule, now) ==
    IF rule.start_date # NoDate /\ now < rule.start_date THEN FALSE
    ELSE TRUE

is_active(rule, now) ==
    IF rule.start_date # NoDate /\ now < rule.start_date THEN FALSE
    ELSE IF rule.end_date # NoDate /\ now > rule.end_date THEN FALSE
    ELSE TRUE

\* Customer.get_tier_discount
get_tier_discount_gold_platinum_swapped(cust) ==
    CASE cust.tier = "bronze" -> 0
      [] cust.tier = "silver" -> 5
      [] cust.tier = "gold" -> 15
      [] cust.tier = "platinum" -> 10
      [] cust.tier = "vip" -> 20
      [] OTHER -> 0

get_tier_discount(cust) ==
    CASE cust.tier = "bronze" -> 0
      [] cust.tier = "silver" -> 5
      [] cust.tier = "gold" -> 10
      [] cust.tier = "platinum" -> 15
      [] cust.tier = "vip" -> 20
      [] OTHER -> 0

----------------------------------------------------------------------------
(* PricingEngine: the discount of one rule on one item. *)

Min(a, b) == IF a < b THEN a ELSE b

\* x * (p / 100); every x of the model is a multiple of 100, so the quotient
\* is taken first and is exact
Percent(x, p) == (x \div 100) * p

\* PricingEngine._is_rule_applicable
is_rule_applicable_no_tier_check(cart_item, rule, cust) ==
    IF cart_item.quantity < rule.min_quantity THEN FALSE
    ELSE IF subtotal(cart_item) < rule.min_amount THEN FALSE
    ELSE IF rule.applicable_categories # {}
            /\ cart_item.product.category \notin rule.applicable_categories THEN FALSE
    ELSE IF rule.applicable_products # {}
            /\ cart_item.product.id \notin rule.applicable_products THEN FALSE
    ELSE TRUE

_is_rule_applicable(cart_item, rule, cust) ==
    IF cart_item.quantity < rule.min_quantity THEN FALSE
    ELSE IF subtotal(cart_item) < rule.min_amount THEN FALSE
    ELSE IF rule.applicable_categories # {}
            /\ cart_item.product.category \notin rule.applicable_categories THEN FALSE
    ELSE IF rule.applicable_products # {}
            /\ cart_item.product.id \notin rule.applicable_products THEN FALSE
    ELSE IF rule.customer_tiers # {}
            /\ cust.tier \notin rule.customer_tiers THEN FALSE
    ELSE TRUE

\* sorted(rule.tier_thresholds.items()): the <<threshold, percent>> pairs of the
\* dict in ascending threshold order
RECURSIVE SortedItems(_)
SortedItems(d) ==
    IF d = {} THEN <<>>
    ELSE LET first == CHOOSE p \in d : \A q \in d : p[1] <= q[1]
         IN <<first>> \o SortedItems(d \ {first})

\* the loop `for threshold, discount_percent in sorted(...)`, from pair k on,
\* with `discount` the value held so far
RECURSIVE TieredLoopCumulative(_, _, _, _)
TieredLoopCumulative(pairs, k, cart_item, discount) ==
    IF k > Len(pairs) THEN discount
    ELSE TieredLoopCumulative(pairs, k + 1, cart_item,
                              IF subtotal(cart_item) >= pairs[k][1]
                              THEN discount + Percent(subtotal(cart_item), pairs[k][2])
                              ELSE discount)

RECURSIVE TieredLoop(_, _, _, _)
TieredLoop(pairs, k, cart_item, discount) ==
    IF k > Len(pairs) THEN discount
    ELSE TieredLoop(pairs, k + 1, cart_item,
                    IF subtotal(cart_item) >= pairs[k][1]
                    THEN Percent(subtotal(cart_item), pairs[k][2])
                    ELSE discount)

\* a returned value, and a raised exception
Return(value) == [raised |-> FALSE, value |-> value]
Raise == [raised |-> TRUE, value |-> 0]

\* the branch of calculate_item_discount on rule.discount_type: the discount
\* before the cap, or ZeroDivisionError raised by `quantity // buy_quantity`
TypeDiscountFreeItemsUnclamped(cart_item, rule) ==
    CASE rule.discount_type = "percentage" ->
           Return(Percent(subtotal(cart_item), rule.value))
      [] rule.discount_type = "fixed_amount" ->
           Return(Min(rule.value, subtotal(cart_item)))
      [] rule.discount_type = "buy_x_get_y" ->
           IF cart_item.quantity >= rule.buy_quantity
           THEN IF rule.buy_quantity = 0 THEN Raise
                ELSE LET free_items ==
                             (cart_item.quantity \div rule.buy_quantity) * rule.get_quantity
                     IN Return(free_items * cart_item.product.price)
           ELSE Return(0)
      [] rule.discount_type = "tiered" ->
           Return(TieredLoop(SortedItems(rule.tier_thresholds), 1, cart_item, 0))
      [] OTHER -> Return(0)

TypeDiscount(cart_item, rule) ==
    CASE rule.discount_type = "percentage" ->
           Return(Percent(subtotal(cart_item), rule.value))
      [] rule.discount_type = "fixed_amount" ->
           Return(Min(rule.value, subtotal(cart_item)))
      [] rule.discount_type = "buy_x_get_y" ->
           IF cart_item.quantity >= rule.buy_quantity
           THEN IF rule.buy_quantity = 0 THEN Raise
                ELSE LET free_items ==
                             (cart_item.quantity \div rule.buy_quantity) * rule.get_quantity
                     IN Return(Min(free_items, cart_item.quantity) * cart_item.product.price)
           ELSE Return(0)
      [] rule.discount_type = "tiered" ->
           Return(TieredLoop(SortedItems(rule.tier_thresholds), 1, cart_item, 0))
      [] OTHER -> Return(0)

\* PricingEngine.calculate_item_discount, with `now` the clock value that
\* rule.is_active() reads
calculate_item_discount_no_cap(cart_item, rule, cust, now) ==
    IF ~is_active(rule, now) THEN Return(0)
    ELSE IF ~_is_rule_applicable(cart_item, rule, cust) THEN Return(0)
    ELSE TypeDiscount(cart_item, rule)

calculate_item_discount(cart_item, rule, cust, now) ==
    IF ~is_active(rule, now) THEN Return(0)
    ELSE IF ~_is_rule_applicable(cart_item, rule, cust) THEN Return(0)
    ELSE LET d == TypeDiscount(cart_item, rule)
         IN IF d.raised THEN Raise
            ELSE Return(Min(d.value, rule.max_discount))

----------------------------------------------------------------------------
(* PricingEngine: the best-discount selector, shipping and the pipeline. *)

\* sum(item.subtotal for item in cart_items)
RECURSIVE SumSubtotal(_)
SumSubtotal(cart) ==
    IF cart = <<>> THEN 0 ELSE subtotal(Head(cart)) + SumSubtotal(Tail(cart))

\* sum(item.product.weight * item.quantity for item in cart_items)
RECURSIVE SumWeight(_)
SumWeight(cart) ==
    IF cart = <<>> THEN 0
    ELSE Head(cart).product.weight * Head(cart).quantity + SumWeight(Tail(cart))

\* the dict `results` that calculate_best_discount_combination starts from
StaleResults(cart) == [results EXCEPT !.subtotal = SumSubtotal(cart)]

InitialResults(cart) ==
    [item_discounts |-> <<>>, total_discount |-> 0, applied_rules |-> <<>>,
     subtotal |-> SumSubtotal(cart)]

\* item_key = f"{item.product.id}_{item.quantity}"
item_key(item) == <<item.product.id, item.quantity>>

\* `if discount > best_discount: best_discount = discount; best_rule = rule`,
\* on the pair <<best_discount, best_rule>>, with j the index of `rule`
KeepBestLast(best, discount, j) ==
    IF discount >= best[1] THEN <<discount, j>> ELSE best

KeepBest(best, discount, j) ==
    IF discount > best[1] THEN <<discount, j>> ELSE best

\* `if best_discount > 0:` and its body, on the dict `results`
RecordItem(res, item, best, rules) ==
    IF best[1] > 0
    THEN LET entry == [product_name |-> item.product.name,
                       discount_amount |-> best[1],
                       rule_name |-> rules[best[2]].name,
                       original_price |-> subtotal(item)]
             name == rules[best[2]].name
         IN [item_discounts |->
                 [k \in DOMAIN res.item_discounts \cup {item_key(item)} |->
                      IF k = item_key(item) THEN entry ELSE res.item_discounts[k]],
             total_discount |-> res.total_discount + best[1],
             applied_rules |->
                 IF \E n \in 1 .. Len(res.applied_rules) : res.applied_rules[n] = name
                 THEN res.applied_rules
                 ELSE Append(res.applied_rules, name),
             subtotal |-> res.subtotal]
    ELSE res

\* PricingEngine.shipping_rates, in the dict's insertion order:
\* <<min_amount, max_amount, fee>>
shipping_rates ==
    <<<<0, 200000, 50000>>, <<200000, 500000, 30000>>, <<500000, Inf, 0>>>>

\* the loop of calculate_shipping_fee over shipping_rates, from bracket k on
RECURSIVE BaseFee(_, _)
BaseFee(sub, k) ==
    IF k > Len(shipping_rates) THEN 0
    ELSE IF shipping_rates[k][1] <= sub /\ sub < shipping_rates[k][2]
         THEN shipping_rates[k][3]
         ELSE BaseFee(sub, k + 1)

\* PricingEngine.calculate_shipping_fee
calculate_shipping_fee_whole_weight(sub, weight) ==
    IF weight > 5 THEN BaseFee(sub, 1) + weight * 10000
    ELSE BaseFee(sub, 1)

calculate_shipping_fee(sub, weight) ==
    IF weight > 5 THEN BaseFee(sub, 1) + (weight - 5) * 10000
    ELSE BaseFee(sub, 1)

\* a quotient n / d that the code leaves as a float, as the reduced fraction
RECURSIVE GCD(_, _)
GCD(a, b) == IF b = 0 THEN a ELSE GCD(b, a % b)
Ratio(n, d) == [num |-> n \div GCD(n, d), den |-> d \div GCD(n, d)]

\* calculate_final_price after the selector returned discount_info: stages 3
\* to 6 and the returned dict
FinalBreakdownTaxOnSubtotal(cart, cust, flag, discount_info) ==
    LET sub == SumSubtotal(cart)
        product_discount == discount_info.total_discount
        customer_discount ==
            IF flag THEN Percent(sub - product_discount, get_tier_discount(cust)) ELSE 0
        tax_amount == sub \div 10
        shipping_fee == calculate_shipping_fee(sub, SumWeight(cart))
    IN [status |-> "ok",
        subtotal |-> sub,
        product_discount |-> product_discount,
        customer_tier_discount |-> customer_discount,
        total_discount |-> product_discount + customer_discount,
        tax_amount |-> tax_amount,
        shipping_fee |-> shipping_fee,
        total |-> sub - product_discount - customer_discount + tax_amount + shipping_fee,
        total_weight |-> SumWeight(cart),
        discount_details |-> discount_info,
        savings_percentage |->
            IF sub > 0 THEN Ratio((product_discount + customer_discount) * 100, sub)
            ELSE Ratio(0, 1)]

FinalBreakdown(cart, cust, flag, discount_info) ==
    LET sub == SumSubtotal(cart)
        total_weight == SumWeight(cart)
        product_discount == discount_info.total_discount
        customer_discount ==
            IF flag THEN Percent(sub - product_discount, get_tier_discount(cust)) ELSE 0
        taxable_amount == sub - product_discount - customer_discount
        \* taxable_amount * self.tax_rate, tax_rate = 0.1
        tax_amount == taxable_amount \div 10
        shipping_fee == calculate_shipping_fee(sub, total_weight)
    IN [status |-> "ok",
        subtotal |-> sub,
        product_discount |-> product_discount,
        customer_tier_discount |-> customer_discount,
        total_discount |-> product_discount + customer_discount,
        tax_amount |-> tax_amount,
        shipping_fee |-> shipping_fee,
        total |-> sub - product_discount - customer_discount + tax_amount + shipping_fee,
        total_weight |-> total_weight,
        discount_details |-> discount_info,
        savings_percentage |->
            IF sub > 0 THEN Ratio((product_discount + customer_discount) * 100, sub)
            ELSE Ratio(0, 1)]

\* an exception left calculate_final_price
Raised == [status |-> "raised"]

\* no call has returned
NoBreakdown == [status |-> "none"]

\* The whole of calculate_final_price when every is_active check of the call
\* reads the same clock value `now`: the two loops of the selector, then the
\* stages after it.
RECURSIVE RuleLoop(_, _, _, _, _, _)
RuleLoop(item, rules, j, cust, now, best) ==
    IF j > Len(rules) THEN [raised |-> FALSE, best |-> best]
    ELSE LET d == calculate_item_discount(item, rules[j], cust, now)
         IN IF d.raised THEN [raised |-> TRUE, best |-> best]
            ELSE RuleLoop(item, rules, j + 1, cust, now, KeepBest(best, d.value, j))

RECURSIVE ItemLoop(_, _, _, _, _, _)
ItemLoop(cart, k, rules, cust, now, res) ==
    IF k > Len(cart) THEN [raised |-> FALSE, results |-> res]
    ELSE LET b == RuleLoop(cart[k], rules, 1, cust, now, <<0, 0>>)
         IN IF b.raised THEN [raised |-> TRUE, results |-> res]
            ELSE ItemLoop(cart, k + 1, rules, cust, now,
                          RecordItem(res, cart[k], b.best, rules))

PriceAt(cart, cust, flag, rules, now) ==
    LET sel == ItemLoop(cart, 1, rules, cust, now, InitialResults(cart))
    IN IF sel.raised THEN Raised ELSE FinalBreakdown(cart, cust, flag, sel.results)

----------------------------------------------------------------------------
(* One direct call of calculate_item_discount on drawn arguments. *)

Book == Product(1, "Book", 100000, "Books", 1)
Phone == Product(2, "Phone", 500000, "Electronics", 3)
Laptop == Product(3, "Laptop", 12500000, "Electronics", 2)

\* cart items of the direct calls; nothing in the code checks a quantity, so
\* the last two are arguments the call accepts as well
ItemDomain ==
    {CartItem(Book, 1), CartItem(Book, 2), CartItem(Book, 4),
     CartItem(Phone, 2), CartItem(Laptop, 1), CartItem(Laptop, 2),
     CartItem(Book, 0), CartItem(Book, -1)}

\* the type-dependent fields of the rules of the direct calls
Formulas ==
    {[DiscountRule("Flash Sale 20%", "percentage", 20) EXCEPT !.max_discount = 150000],
     DiscountRule("Clearance 150%", "percentage", 150),
     DiscountRule("Voucher 50k", "fixed_amount", 50000),
     DiscountRule("Voucher 300k", "fixed_amount", 300000),
     [DiscountRule("Buy 2 Get 1", "buy_x_get_y", 0)
         EXCEPT !.buy_quantity = 2, !.get_quantity = 1],
     [DiscountRule("Buy 1 Get 2", "buy_x_get_y", 0)
         EXCEPT !.buy_quantity = 1, !.get_quantity = 2, !.max_discount = 150000],
     [DiscountRule("Get 1", "buy_x_get_y", 0) EXCEPT !.get_quantity = 1],
     [DiscountRule("Tiered", "tiered", 0)
         EXCEPT !.tier_thresholds = {<<10000000, 5>>, <<20000000, 10>>}],
     [DiscountRule("Tiered Reversed", "tiered", 0)
         EXCEPT !.tier_thresholds = {<<10000000, 10>>, <<20000000, 5>>}],
     DiscountRule("Bundle", "bundle", 15)}

\* <<start_date, end_date>> of the rules of the direct calls
Windows ==
    {<<NoDate, NoDate>>, <<1, NoDate>>, <<NoDate, 1>>, <<1, 1>>, <<2, 1>>, <<1, 0>>}

RuleDomain ==
    {[f EXCEPT !.min_quantity = mq, !.min_amount = ma,
               !.applicable_categories = cats, !.applicable_products = prods,
               !.customer_tiers = tiers, !.start_date = w[1], !.end_date = w[2]] :
        f \in Formulas, mq \in {0, 3}, ma \in {0, 300000},
        cats \in {{}, {"Electronics"}}, prods \in {{}, {2}},
        tiers \in {{}, {"gold", "vip"}}, w \in Windows}

NoItemCall ==
    [called |-> FALSE, cart_item |-> CartItem(Book, 1),
     rule |-> DiscountRule("", "bundle", 0), customer |-> Customer("bronze"),
     ret |-> Return(0)]

\* the locals of a call of calculate_final_price, when none is running
NoResults ==
    [item_discounts |-> <<>>, total_discount |-> 0, applied_rules |-> <<>>,
     subtotal |-> 0]

NoPrev == [ret |-> NoBreakdown, reads |-> {}]

NoShipCall == [called |-> FALSE, subtotal |-> 0, weight |-> 0, ret |-> 0]

Callers == 1 .. MaxCallers

\* a concurrent caller that is not in a call
NoCall ==
    [pc |-> "idle", cart_items |-> <<>>, customer |-> Customer("bronze"),
     apply_customer_discount |-> TRUE, item_idx |-> 0, rule_idx |-> 0,
     best_discount |-> 0, best_rule |-> 0, ret |-> NoBreakdown,
     rules_seen |-> <<>>, overlapped |-> FALSE]

CallersIdle ==
    /\ calls = [c \in Callers |-> NoCall]
    /\ call_results = [c \in Callers |-> NoResults]

NoPointsCall ==
    [called |-> FALSE, amount_spent |-> 0, tier |-> "bronze",
     bonus_multiplier |-> [n |-> 1, d |-> 1], ret |-> 0]

\* FinanceApp() where DATA_FILE does not exist: load_data returns []
NoFile == [exists |-> FALSE, data |-> <<>>]

NoOp == [op |-> "none", id |-> 0, before |-> {}]

FinanceEmpty ==
    /\ transactions = <<>>
    /\ data_file = NoFile
    /\ last_op = NoOp

\* nothing outside the engine's rule list and its caller has happened
OthersIdle ==
    /\ ship_call = NoShipCall
    /\ CallersIdle
    /\ points_call = NoPointsCall
    /\ FinanceEmpty

EngineIdle ==
    /\ discount_rules = <<>>
    /\ added = <<>>
    /\ pc = "idle"
    /\ cart_items = <<>>
    /\ customer = Customer("bronze")
    /\ apply_customer_discount = TRUE
    /\ item_idx = 0
    /\ rule_idx = 0
    /\ best_discount = 0
    /\ best_rule = 0
    /\ results = NoResults
    /\ reads = {}
    /\ credited = <<>>
    /\ ret = NoBreakdown
    /\ prev = NoPrev

InitItem ==
    /\ EngineIdle
    /\ OthersIdle
    /\ clock \in 0 .. MaxTime
    /\ item_call \in {[NoItemCall EXCEPT !.cart_item = i, !.rule = r, !.customer = Customer(t)] :
                         i \in ItemDomain, r \in RuleDomain, t \in CustomerTier}

\* engine.calculate_item_discount(cart_item, rule, customer)
CallItemDiscount ==
    /\ ~item_call.called
    /\ item_call' = [item_call EXCEPT
                       !.called = TRUE,
                       !.ret = calculate_item_discount(item_call.cart_item, item_call.rule,
                                                       item_call.customer, clock)]
    /\ UNCHANGED <<discount_rules, added, clock, pc, cart_items, customer,
                   apply_customer_discount, item_idx, rule_idx, best_discount,
                   best_rule, results, reads, credited, ret, prev>>
    /\ UNCHANGED other_vars

NextItem == CallItemDiscount

SpecItem == InitItem /\ [][NextItem]_vars

----------------------------------------------------------------------------
(* One direct call of calculate_shipping_fee on drawn arguments. *)

\* the variables of the engine's single caller
caller_vars == <<pc, cart_items, customer, apply_customer_discount, item_idx, rule_idx,
                 best_discount, best_rule, results, reads, credited, ret, prev>>

\* the subtotals of the direct calls: the ends of the brackets, their
\* neighbours, amounts inside each bracket, and a negative amount, which the
\* call accepts as well
ShipSubtotals ==
    {-100000, 0, 100000, 199999, 200000, 200001, 350000, 499999, 500000, 500001,
     25000000}

InitShip ==
    /\ EngineIdle
    /\ CallersIdle
    /\ FinanceEmpty
    /\ points_call = NoPointsCall
    /\ clock = 0
    /\ item_call = NoItemCall
    /\ ship_call \in {[NoShipCall EXCEPT !.subtotal = sub, !.weight = w] :
                         sub \in ShipSubtotals, w \in 0 .. MaxWeight}

\* engine.calculate_shipping_fee(subtotal, weight)
CallShippingFee ==
    /\ ~ship_call.called
    /\ ship_call' = [ship_call EXCEPT
                       !.called = TRUE,
                       !.ret = calculate_shipping_fee(ship_call.subtotal, ship_call.weight)]
    /\ UNCHANGED <<discount_rules, added, clock, item_call, calls, call_results,
                   points_call>>
    /\ UNCHANGED caller_vars
    /\ UNCHANGED finance_vars

NextShip == CallShippingFee

SpecShip == InitShip /\ [][NextShip]_vars

----------------------------------------------------------------------------
(* The engine: rules are added, the clock advances, and a caller runs         *)
(* calculate_final_price, whose selector reads the clock once per rule check. *)

\* the cart items a caller passes; the code accepts the quantity 0 as well
CartCatalog == {CartItem(Book, 2), CartItem(Phone, 2), CartItem(Book, 0)}

\* the rules an operator configures
RuleCatalog ==
    {[DiscountRule("Welcome Voucher", "fixed_amount", 50000)
         EXCEPT !.customer_tiers = {"bronze", "vip"}, !.start_date = 1, !.end_date = 1],
     DiscountRule("Clearance 150%", "percentage", 150)}

\* and, where the clock runs freely, a buy-X-get-Y rule whose buy_quantity was
\* left at the field's default
RuleCatalogClock ==
    RuleCatalog \cup
        {[DiscountRule("Get 1", "buy_x_get_y", 0)
             EXCEPT !.get_quantity = 1, !.applicable_products = {2}]}

RECURSIVE SeqsUpTo(_, _)
SeqsUpTo(S, n) ==
    IF n = 0 THEN {<<>>}
    ELSE SeqsUpTo(S, n - 1)
            \cup {Append(q, x) : q \in {r \in SeqsUpTo(S, n - 1) : Len(r) = n - 1}, x \in S}

\* the carts a caller passes
Carts == SeqsUpTo(CartCatalog, MaxItems)

Init ==
    /\ EngineIdle
    /\ OthersIdle
    /\ clock = 0
    /\ item_call = NoItemCall

\* self.discount_rules.append(rule)
append_unless_present(list, rule) ==
    IF \E k \in 1 .. Len(list) : list[k] = rule THEN list ELSE Append(list, rule)

append(list, rule) == Append(list, rule)

\* engine.add_discount_rule(rule); the caller holds no result of an earlier
\* call any more
add_discount_rule(rule) ==
    /\ pc \in {"idle", "done"}
    /\ Len(discount_rules) < MaxRules
    /\ discount_rules' = append(discount_rules, rule)
    /\ added' = Append(added, rule)
    /\ pc' = "idle"
    /\ cart_items' = <<>>
    /\ customer' = Customer("bronze")
    /\ apply_customer_discount' = TRUE
    /\ item_idx' = 0
    /\ rule_idx' = 0
    /\ best_discount' = 0
    /\ best_rule' = 0
    /\ results' = NoResults
    /\ reads' = {}
    /\ credited' = <<>>
    /\ ret' = NoBreakdown
    /\ prev' = NoPrev
    /\ UNCHANGED <<clock, item_call>>
    /\ UNCHANGED other_vars

\* time passes
Tick ==
    /\ clock < MaxTime
    /\ clock' = clock + 1
    /\ UNCHANGED <<discount_rules, added, pc, cart_items, customer, apply_customer_discount,
                   item_idx, rule_idx, best_discount, best_rule, results, reads,
                   credited, ret, prev, item_call>>
    /\ UNCHANGED other_vars

\* time passes while no call is running and no result is held
TickBetweenCalls == pc = "idle" /\ Tick

\* engine.calculate_final_price(cart, cust, flag) is entered: stage 1, and the
\* selector up to its first item.  A caller that holds the result of a call
\* makes the same call again.
calculate_final_price(cart, cust, flag) ==
    /\ \/ pc = "idle"
       \/ pc = "done" /\ cart = cart_items /\ cust = customer
                      /\ flag = apply_customer_discount
    /\ cart_items' = cart
    /\ customer' = cust
    /\ apply_customer_discount' = flag
    /\ results' = InitialResults(cart)
    /\ item_idx' = 1
    /\ rule_idx' = 1
    /\ best_discount' = 0
    /\ best_rule' = 0
    /\ reads' = {}
    /\ credited' = <<>>
    /\ ret' = NoBreakdown
    /\ prev' = IF pc = "done" THEN [ret |-> ret, reads |-> reads] ELSE NoPrev
    /\ pc' = "select"
    /\ UNCHANGED <<discount_rules, added, clock, item_call>>
    /\ UNCHANGED other_vars

\* one pass of `for rule in self.discount_rules`: calculate_item_discount reads
\* the clock in rule.is_active()
CheckRule ==
    /\ pc = "select"
    /\ item_idx <= Len(cart_items)
    /\ rule_idx <= Len(discount_rules)
    /\ LET d == calculate_item_discount(cart_items[item_idx], discount_rules[rule_idx],
                                        customer, clock)
           best == KeepBest(<<best_discount, best_rule>>, d.value, rule_idx)
       IN /\ reads' = reads \cup {clock}
          /\ IF d.raised
             THEN /\ pc' = "done"
                  /\ ret' = Raised
                  /\ UNCHANGED <<rule_idx, best_discount, best_rule>>
             ELSE /\ rule_idx' = rule_idx + 1
                  /\ best_discount' = best[1]
                  /\ best_rule' = best[2]
                  /\ UNCHANGED <<pc, ret>>
    /\ UNCHANGED <<discount_rules, added, clock, cart_items, customer, apply_customer_discount,
                   item_idx, results, credited, prev, item_call>>
    /\ UNCHANGED other_vars

\* the rules are exhausted for the item: `if best_discount > 0:` and the next
\* pass of `for item in cart_items`
FinishItem ==
    /\ pc = "select"
    /\ item_idx <= Len(cart_items)
    /\ rule_idx > Len(discount_rules)
    /\ results' = RecordItem(results, cart_items[item_idx],
                             <<best_discount, best_rule>>, discount_rules)
    /\ credited' = Append(credited, <<best_discount, best_rule>>)
    /\ item_idx' = item_idx + 1
    /\ rule_idx' = 1
    /\ best_discount' = 0
    /\ best_rule' = 0
    /\ UNCHANGED <<discount_rules, added, clock, pc, cart_items, customer,
                   apply_customer_discount, reads, ret, prev, item_call>>
    /\ UNCHANGED other_vars

\* the selector returns `results`; stages 3 to 6 and the return
ReturnBreakdown ==
    /\ pc = "select"
    /\ item_idx > Len(cart_items)
    /\ ret' = FinalBreakdown(cart_items, customer, apply_customer_discount, results)
    /\ pc' = "done"
    /\ UNCHANGED <<discount_rules, added, clock, cart_items, customer, apply_customer_discount,
                   item_idx, rule_idx, best_discount, best_rule, results, reads,
                   credited, prev, item_call>>
    /\ UNCHANGED other_vars

\* the engine with the clock standing still from the entry of a call until
\* the caller lets go of its result: every call has one evaluation time, and
\* a repeated call has the evaluation time of the call it repeats
Next ==
    \/ \E rule \in RuleCatalog : add_discount_rule(rule)
    \/ TickBetweenCalls
    \/ \E cart \in Carts, tier \in CustomerTier,
          flag \in BOOLEAN : calculate_final_price(cart, Customer(tier), flag)
    \/ CheckRule
    \/ FinishItem
    \/ ReturnBreakdown

Spec == Init /\ [][Next]_vars

\* the engine with the clock advancing at any moment, also between two rule
\* checks of one call
NextClock ==
    \/ \E rule \in RuleCatalogClock : add_discount_rule(rule)
    \/ Tick
    \/ \E cart \in Carts, tier \in CustomerTier,
          flag \in BOOLEAN : calculate_final_price(cart, Customer(tier), flag)
    \/ CheckRule
    \/ FinishItem
    \/ ReturnBreakdown

SpecClock == Init /\ [][NextClock]_vars

----------------------------------------------------------------------------
(* AdvancedPricingAlgorithms.loyalty_point_calculation.  Its multipliers are  *)
(* Python floats: IEEE 754 binary64 numbers, each literal and each product    *)
(* rounded to the nearest number of 53 significant bits, ties to even.  A     *)
(* natural number is a sequence of limbs of LimbBits bits, least significant  *)
(* first, and a non-negative float is m * 2^e with m of at most 53 bits.      *)

\* significant bits of a Python float
Precision == 53

\* the limbs of the long arithmetic
LimbBits == 10
Base == 2^LimbBits

\* limbs computed of a decimal literal's fraction before it is rounded
FractionLimbs == 7

\* the limbs of the natural number n
RECURSIVE Limbs(_)
Limbs(n) == IF n = 0 THEN <<>> ELSE <<n % Base>> \o Limbs(n \div Base)

\* the natural number of the limbs p
RECURSIVE Value(_)
Value(p) == IF p = <<>> THEN 0 ELSE Head(p) + Base * Value(Tail(p))

\* p without its leading zero limbs
RECURSIVE Trim(_)
Trim(p) ==
    IF p = <<>> THEN p
    ELSE IF p[Len(p)] = 0 THEN Trim(SubSeq(p, 1, Len(p) - 1)) ELSE p

\* limb k of p, 0 beyond its length
Limb(p, k) == IF k \in 1 .. Len(p) THEN p[k] ELSE 0

\* bit j of p, bit 0 the least significant
Bit(p, j) == (Limb(p, j \div LimbBits + 1) \div 2^(j % LimbBits)) % 2

\* the number of significant bits of p
BitLength(p) ==
    IF p = <<>> THEN 0
    ELSE LimbBits * (Len(p) - 1)
            + (CHOOSE n \in 1 .. LimbBits : 2^(n - 1) <= p[Len(p)] /\ p[Len(p)] < 2^n)

\* floor(p / 2^s)
ShiftRight(p, s) ==
    LET a == s \div LimbBits
        b == s % LimbBits
    IN Trim([i \in 1 .. Len(p) |->
                (Limb(p, i + a) \div 2^b)
                   + (Limb(p, i + a + 1) % 2^b) * 2^(LimbBits - b)])

\* p + 1
RECURSIVE Succ(_)
Succ(p) ==
    IF p = <<>> THEN <<1>>
    ELSE IF Head(p) < Base - 1 THEN <<Head(p) + 1>> \o Tail(p)
    ELSE <<0>> \o Succ(Tail(p))

\* the exact product a * b: the sum of column k of the long multiplication
\* from row i on, then the carries from column k on
RECURSIVE Column(_, _, _, _)
Column(a, b, k, i) ==
    IF i > Len(a) THEN 0
    ELSE a[i] * Limb(b, k + 1 - i) + Column(a, b, k, i + 1)

RECURSIVE Carries(_, _, _, _)
Carries(a, b, k, carry) ==
    IF k > Len(a) + Len(b) THEN Limbs(carry)
    ELSE LET t == Column(a, b, k, 1) + carry
         IN <<t % Base>> \o Carries(a, b, k + 1, t \div Base)

Times(a, b) == Trim(Carries(a, b, 1, 0))

\* the float nearest to p * 2^e (plus a non-zero remainder below the last bit
\* of p when `sticky`): round to Precision bits, half to even
RoundToFloat(p, e, sticky) ==
    IF BitLength(p) <= Precision THEN [m |-> p, e |-> e]
    ELSE LET s == BitLength(p) - Precision
             q == ShiftRight(p, s)
             half == Bit(p, s - 1) = 1
             rest == sticky \/ \E j \in 0 .. s - 2 : Bit(p, j) = 1
             r == IF half /\ (rest \/ Bit(p, s) = 1) THEN Succ(q) ELSE q
         IN IF BitLength(r) > Precision
            THEN [m |-> ShiftRight(r, 1), e |-> e + s + 1]
            ELSE [m |-> r, e |-> e + s]

\* the limbs of the fraction r / d (r < d), from limb k on counted from the
\* most significant, and the remainder that is left
RECURSIVE Fraction(_, _, _)
Fraction(r, d, k) ==
    IF k > FractionLimbs THEN [limbs |-> <<>>, rem |-> r]
    ELSE LET f == Fraction((r * Base) % d, d, k + 1)
         IN [limbs |-> Append(f.limbs, (r * Base) \div d), rem |-> f.rem]

\* the float a decimal literal of value n / d denotes (1.2 is Literal(12, 10))
Literal(n, d) ==
    LET f == Fraction(n % d, d, 1)
    IN RoundToFloat(Trim(f.limbs \o Limbs(n \div d)), -(LimbBits * FractionLimbs),
                    f.rem # 0)

\* float(n) of an int n
FromInt(n) == [m |-> Limbs(n), e |-> 0]

\* x * y on floats
FMul(x, y) == RoundToFloat(Times(x.m, y.m), x.e + y.e, FALSE)

\* int(x) of a float x >= 0
int(x) ==
    IF x.e >= 0 THEN Value(x.m) * 2^x.e
    ELSE Value(ShiftRight(x.m, -x.e))

\* tier_multipliers.get(tier, 1.0)
tier_multipliers(tier) ==
    CASE tier = "bronze" -> Literal(10, 10)
      [] tier = "silver" -> Literal(12, 10)
      [] tier = "gold" -> Literal(15, 10)
      [] tier = "platinum" -> Literal(20, 10)
      [] tier = "vip" -> Literal(30, 10)
      [] OTHER -> Literal(10, 10)

\* loyalty_point_calculation(amount_spent, tier, bonus_multiplier), for an
\* amount that is a non-negative integer (int(amount_spent / 1000) is then
\* amount_spent \div 1000) and a bonus that is a float
loyalty_point_calculation(amount_spent, tier, bonus_multiplier) ==
    LET base_points == amount_spent \div 1000
        multiplier == FMul(tier_multipliers(tier), bonus_multiplier)
    IN int(FMul(FromInt(base_points), multiplier))

----------------------------------------------------------------------------
(* One direct call of loyalty_point_calculation on drawn arguments. *)

PointsAmounts == {0, 999, 1000, 1999, 15000, 25000, 1234000, 2999500}

\* the bonus multipliers of the calls, each the decimal literal n / d: the
\* default 1.0, 1.5, 2.0, 1.1
PointsBonuses == {[n |-> 1, d |-> 1], [n |-> 3, d |-> 2], [n |-> 2, d |-> 1],
                  [n |-> 11, d |-> 10]}

InitPoints ==
    /\ EngineIdle
    /\ CallersIdle
    /\ FinanceEmpty
    /\ clock = 0
    /\ item_call = NoItemCall
    /\ ship_call = NoShipCall
    /\ points_call \in {[NoPointsCall EXCEPT !.amount_spent = a, !.tier = t,
                                             !.bonus_multiplier = b] :
                          a \in PointsAmounts, t \in CustomerTier, b \in PointsBonuses}

\* AdvancedPricingAlgorithms.loyalty_point_calculation(amount_spent, tier,
\* bonus_multiplier)
CallLoyaltyPoints ==
    /\ ~points_call.called
    /\ points_call' =
          [points_call EXCEPT
              !.called = TRUE,
              !.ret = loyalty_point_calculation(
                          points_call.amount_spent, points_call.tier,
                          Literal(points_call.bonus_multiplier.n,
                                  points_call.bonus_multiplier.d))]
    /\ UNCHANGED <<discount_rules, added, clock, item_call, ship_call, calls,
                   call_results>>
    /\ UNCHANGED caller_vars
    /\ UNCHANGED finance_vars

NextPoints == CallLoyaltyPoints

SpecPoints == InitPoints /\ [][NextPoints]_vars

----------------------------------------------------------------------------
(* FinanceApp of src/QuanLyChiTieu.py: the transaction list, saved to        *)
(* DATA_FILE after every change.                                             *)

\* the variables of the pricing engine and of its callers
pricing_vars == <<discount_rules, added, clock, caller_vars, item_call, ship_call,
                  calls, call_results, points_call>>

\* Transaction(t_id, t_type, category, amount, desc, date)
Transaction(t_id, t_type, category, amount, desc, date) ==
    [id |-> t_id, type |-> t_type, category |-> category, amount |-> amount,
     desc |-> desc, date |-> date]

\* the ids of the stored transactions
Ids(list) == {list[k].id : k \in 1 .. Len(list)}

\* FinanceApp.get_new_id
get_new_id_by_count(list) == Len(list) + 1

get_new_id(list) ==
    IF list = <<>> THEN 1
    ELSE (CHOOSE m \in Ids(list) : \A i \in Ids(list) : i <= m) + 1

\* FinanceApp.save_data
save_data(list) == [exists |-> TRUE, data |-> list]

\* next((t for t in self.transactions if t.id == t_id), None): the index of
\* the first transaction of that id, 0 for None
Target(list, t_id) ==
    IF t_id \in Ids(list)
    THEN CHOOSE k \in 1 .. Len(list) :
             list[k].id = t_id /\ \A j \in 1 .. k - 1 : list[j].id # t_id
    ELSE 0

\* self.transactions.remove(target), target at index k
Remove(list, k) == SubSeq(list, 1, k - 1) \o SubSeq(list, k + 1, Len(list))

\* what the user answers at the prompts; the category is "Khac" (the prompt's
\* default) and the note empty throughout, and "date" stands for the
\* formatted time of the entry
TypeChoices == {"Thu", "Chi"}
Amounts == {50000, 120000}

\* the answer to the amount prompt of update_transaction that is not a string
\* of digits
NotDigits == -1

\* FinanceApp.add_transaction, with the answers to its prompts
add_transaction(t_type, category, amount, desc) ==
    /\ Len(transactions) < MaxTransactions
    /\ get_new_id(transactions) <= MaxId
    /\ amount > 0
    /\ LET new_trans == Transaction(get_new_id(transactions), t_type, category,
                                    amount, desc, "date")
       IN /\ transactions' = Append(transactions, new_trans)
          /\ data_file' = save_data(transactions')
          /\ last_op' = [op |-> "add", id |-> new_trans.id, before |-> Ids(transactions)]
    /\ UNCHANGED pricing_vars

\* FinanceApp.update_transaction, with the answers to its prompts
update_transaction(t_id, t_type, category, amt_input, desc) ==
    /\ last_op' = [op |-> "update", id |-> t_id, before |-> Ids(transactions)]
    /\ IF transactions = <<>> \/ t_id = 0 \/ Target(transactions, t_id) = 0
       THEN UNCHANGED <<transactions, data_file>>
       ELSE LET k == Target(transactions, t_id)
                target == transactions[k]
            IN /\ transactions' =
                     [transactions EXCEPT ![k] =
                         [target EXCEPT
                             !.type = t_type,
                             !.category = category,
                             !.amount = IF amt_input = NotDigits THEN target.amount
                                        ELSE amt_input,
                             !.desc = desc]]
               /\ data_file' = save_data(transactions')
    /\ UNCHANGED pricing_vars

\* FinanceApp.delete_transaction, with the answers to its prompts
delete_transaction(t_id, confirm) ==
    /\ last_op' = [op |-> "delete", id |-> t_id, before |-> Ids(transactions)]
    /\ IF transactions = <<>> \/ t_id = 0 \/ Target(transactions, t_id) = 0 \/ ~confirm
       THEN UNCHANGED <<transactions, data_file>>
       ELSE /\ transactions' = Remove(transactions, Target(transactions, t_id))
            /\ data_file' = save_data(transactions')
    /\ UNCHANGED pricing_vars

InitFinance ==
    /\ EngineIdle
    /\ clock = 0
    /\ item_call = NoItemCall
    /\ OthersIdle

NextFinance ==
    \/ \E t_type \in TypeChoices, amount \in Amounts :
          add_transaction(t_type, "Khac", amount, "")
    \/ \E t_id \in 0 .. MaxId, t_type \in TypeChoices,
          amt_input \in Amounts \cup {NotDigits} :
          update_transaction(t_id, t_type, "Khac", amt_input, "")
    \/ \E t_id \in 0 .. MaxId, confirm \in BOOLEAN : delete_transaction(t_id, confirm)

SpecFinance == InitFinance /\ [][NextFinance]_vars

----------------------------------------------------------------------------
(* Several callers run calculate_final_price on the one engine, their steps  *)
(* interleaved; rules are added and time passes only while no call runs.     *)

\* what the concurrent callers pass
CallerArgs ==
    {[cart |-> <<CartItem(Book, 2)>>, tier |-> "bronze", flag |-> TRUE],
     [cart |-> <<CartItem(Phone, 2), CartItem(Book, 2)>>, tier |-> "vip", flag |-> TRUE]}

\* the dict that `results` of caller c's call names: `results = {...}` is a
\* local of calculate_best_discount_combination, one dict per call
results_slot_shared(c) == 1

results_slot(c) == c

AllIdle == \A c \in Callers : calls[c].pc = "idle"

\* caller c takes a step while another caller is inside a call
Overlaps(c) == \E o \in Callers \ {c} : calls[o].pc = "select"

\* caller c enters calculate_final_price(a.cart, Customer(a.tier), a.flag)
EnterCall(c, a) ==
    /\ calls[c].pc = "idle"
    /\ calls' = [calls EXCEPT ![c] =
                    [pc |-> "select", cart_items |-> a.cart,
                     customer |-> Customer(a.tier), apply_customer_discount |-> a.flag,
                     item_idx |-> 1, rule_idx |-> 1, best_discount |-> 0,
                     best_rule |-> 0, ret |-> NoBreakdown,
                     rules_seen |-> discount_rules, overlapped |-> Overlaps(c)]]
    /\ call_results' = [call_results EXCEPT ![results_slot(c)] = InitialResults(a.cart)]
    /\ UNCHANGED <<discount_rules, added, clock, item_call, ship_call, points_call>>
    /\ UNCHANGED caller_vars
    /\ UNCHANGED finance_vars

\* caller c: one pass of `for rule in self.discount_rules`
CallerCheckRule(c) ==
    /\ calls[c].pc = "select"
    /\ calls[c].item_idx <= Len(calls[c].cart_items)
    /\ calls[c].rule_idx <= Len(discount_rules)
    /\ LET f == calls[c]
           d == calculate_item_discount(f.cart_items[f.item_idx],
                                        discount_rules[f.rule_idx], f.customer, clock)
           best == KeepBest(<<f.best_discount, f.best_rule>>, d.value, f.rule_idx)
       IN calls' = [calls EXCEPT ![c] =
                       IF d.raised
                       THEN [f EXCEPT !.pc = "done", !.ret = Raised,
                                      !.overlapped = f.overlapped \/ Overlaps(c)]
                       ELSE [f EXCEPT !.rule_idx = f.rule_idx + 1,
                                      !.best_discount = best[1], !.best_rule = best[2],
                                      !.overlapped = f.overlapped \/ Overlaps(c)]]
    /\ UNCHANGED <<discount_rules, added, clock, item_call, ship_call, points_call, call_results>>
    /\ UNCHANGED caller_vars
    /\ UNCHANGED finance_vars

\* caller c: `if best_discount > 0:` and the next pass of `for item in cart_items`
CallerFinishItem(c) ==
    /\ calls[c].pc = "select"
    /\ calls[c].item_idx <= Len(calls[c].cart_items)
    /\ calls[c].rule_idx > Len(discount_rules)
    /\ LET f == calls[c]
       IN /\ call_results' =
                [call_results EXCEPT ![results_slot(c)] =
                    RecordItem(call_results[results_slot(c)], f.cart_items[f.item_idx],
                               <<f.best_discount, f.best_rule>>, discount_rules)]
          /\ calls' = [calls EXCEPT ![c] =
                          [f EXCEPT !.item_idx = f.item_idx + 1, !.rule_idx = 1,
                                    !.best_discount = 0, !.best_rule = 0,
                                    !.overlapped = f.overlapped \/ Overlaps(c)]]
    /\ UNCHANGED <<discount_rules, added, clock, item_call, ship_call, points_call>>
    /\ UNCHANGED caller_vars
    /\ UNCHANGED finance_vars

\* caller c: the selector returns `results`; stages 3 to 6 and the return
CallerReturn(c) ==
    /\ calls[c].pc = "select"
    /\ calls[c].item_idx > Len(calls[c].cart_items)
    /\ LET f == calls[c]
       IN calls' = [calls EXCEPT ![c] =
                       [f EXCEPT !.pc = "done",
                                 !.ret = FinalBreakdown(f.cart_items, f.customer,
                                                        f.apply_customer_discount,
                                                        call_results[results_slot(c)]),
                                 !.overlapped = f.overlapped \/ Overlaps(c)]]
    /\ UNCHANGED <<discount_rules, added, clock, item_call, ship_call, points_call, call_results>>
    /\ UNCHANGED caller_vars
    /\ UNCHANGED finance_vars

\* caller c lets go of the breakdown it received
CallerRelease(c) ==
    /\ calls[c].pc = "done"
    /\ calls' = [calls EXCEPT ![c] = NoCall]
    /\ call_results' = [call_results EXCEPT ![results_slot(c)] = NoResults]
    /\ UNCHANGED <<discount_rules, added, clock, item_call, ship_call, points_call>>
    /\ UNCHANGED caller_vars
    /\ UNCHANGED finance_vars

NextCallers ==
    \/ \E rule \in RuleCatalog : AllIdle /\ add_discount_rule(rule)
    \/ AllIdle /\ Tick
    \/ \E c \in Callers, a \in CallerArgs : EnterCall(c, a)
    \/ \E c \in Callers : CallerCheckRule(c)
    \/ \E c \in Callers : CallerFinishItem(c)
    \/ \E c \in Callers : CallerReturn(c)
    \/ \E c \in Callers : CallerRelease(c)

SpecCallers == Init /\ [][NextCallers]_vars

----------------------------------------------------------------------------
(* Claims about the pipeline, under Spec and SpecClock. *)

\* C3: within one call of calculate_final_price every rule-activity check, for
\* every item and rule, is evaluated against one and the same timestamp.
C3_SingleTimestamp == Cardinality(reads) <= 1

TierRank(tier) ==
    CASE tier = "bronze" -> 1
      [] tier = "silver" -> 2
      [] tier = "gold" -> 3
      [] tier = "platinum" -> 4
      [] tier = "vip" -> 5

\* the clock value the rule checks of the call read (any, when it checked none)
EvalTime == IF reads = {} THEN clock ELSE CHOOSE t \in reads : TRUE

\* what the call that just returned would have returned for a customer of
\* tier `tier`, everything else and the evaluation time being the same
SameCallAtTier(tier) ==
    PriceAt(cart_items, Customer(tier), apply_customer_discount, discount_rules,
            EvalTime)

C5_InvalidInputRejected ==
    (/\ pc = "done"
     /\ \E k \in 1 .. Len(cart_items) :
            \/ cart_items[k].quantity <= 0
            \/ cart_items[k].product.price < 0
            \/ cart_items[k].product.weight < 0)
        => ret.status # "ok"

\* the discount calculate_item_discount returns for item k of the cart under
\* rule j of the list, at the evaluation time of the call
Offered(k, j) ==
    calculate_item_discount(cart_items[k], discount_rules[j], customer, EvalTime).value

\* the largest discount any rule offers item k, 0 if none is positive
BestOffer(k) ==
    IF \E j \in 1 .. Len(discount_rules) : Offered(k, j) > 0
    THEN CHOOSE d \in {Offered(k, j) : j \in 1 .. Len(discount_rules)} :
             \A j \in 1 .. Len(discount_rules) : Offered(k, j) <= d
    ELSE 0

RECURSIVE SumCredited(_)
SumCredited(c) == IF c = <<>> THEN 0 ELSE Head(c)[1] + SumCredited(Tail(c))

\* C8: the selector credits each item with exactly one rule: the discount
\* counted for the item is the maximum of calculate_item_discount over the
\* rule list (0 if none is positive), the rule is the first of the list that
\* attains it, and total_discount is the sum of these maxima.
C8_BestSingleRule ==
    /\ \A k \in 1 .. Len(credited) :
           LET best == BestOffer(k)
           IN /\ credited[k][1] = best
              /\ IF best > 0
                 THEN /\ credited[k][2] \in 1 .. Len(discount_rules)
                      /\ Offered(k, credited[k][2]) = best
                      /\ \A j \in 1 .. credited[k][2] - 1 : Offered(k, j) < best
                 ELSE credited[k][2] = 0
    /\ pc = "select" => results.total_discount = SumCredited(credited)
    /\ (pc = "done" /\ ret.status = "ok")
           => /\ Len(credited) = Len(cart_items)
              /\ ret.discount_details.total_discount = SumCredited(credited)

\* C8 witness: a call returned for a cart of two items, both discounted, where
\* two rules offered the first item different positive discounts and the
\* second rule of the list won it.
C8_Witness ==
    /\ pc = "done"
    /\ ret.status = "ok"
    /\ Len(cart_items) = 2
    /\ Len(discount_rules) = 2
    /\ Offered(1, 1) > 0
    /\ Offered(1, 2) > Offered(1, 1)
    /\ credited[1] = <<Offered(1, 2), 2>>
    /\ credited[2][1] > 0
    /\ ret.product_discount = credited[1][1] + credited[2][1]

RECURSIVE CartSubtotal(_, _)
CartSubtotal(cart, k) ==
    IF k > Len(cart) THEN 0
    ELSE cart[k].product.price * cart[k].quantity + CartSubtotal(cart, k + 1)

RECURSIVE CartWeight(_, _)
CartWeight(cart, k) ==
    IF k > Len(cart) THEN 0
    ELSE cart[k].product.weight * cart[k].quantity + CartWeight(cart, k + 1)

\* C9: the returned breakdown satisfies the stage equations (the quotients
\* are stated by their products), and one Book of 100,000 twice, no rules, a
\* Bronze customer give the total 250,000.
C9_StageEquations ==
    (pc = "done" /\ ret.status = "ok")
        => /\ ret.subtotal = CartSubtotal(cart_items, 1)
           /\ ret.total_weight = CartWeight(cart_items, 1)
           /\ ret.product_discount = results.total_discount
           /\ ret.discount_details = results
           /\ ret.customer_tier_discount * 100 =
                 IF apply_customer_discount
                 THEN (ret.subtotal - ret.product_discount)
                         * ((TierRank(customer.tier) - 1) * 5)
                 ELSE 0
           /\ ret.tax_amount * 10 =
                 ret.subtotal - ret.product_discount - ret.customer_tier_discount
           /\ ret.shipping_fee = calculate_shipping_fee(ret.subtotal, ret.total_weight)
           /\ ret.total = ret.subtotal - ret.product_discount
                             - ret.customer_tier_discount + ret.tax_amount
                             + ret.shipping_fee
           /\ IF ret.subtotal = 0
              THEN ret.savings_percentage.num = 0
              ELSE ret.subtotal > 0
                   /\ ret.savings_percentage.num * ret.subtotal =
                         ret.savings_percentage.den
                            * (ret.product_discount + ret.customer_tier_discount) * 100
           /\ (cart_items = <<CartItem(Book, 2)>> /\ discount_rules = <<>>
               /\ customer.tier = "bronze")
                  => ret.total = 250000

\* C9 witness: the call on one Book twice, no rules, Bronze customer returned
\* subtotal 200,000, tax 20,000, shipping 30,000, total 250,000.
C9_Witness ==
    /\ pc = "done"
    /\ cart_items = <<CartItem(Book, 2)>>
    /\ discount_rules = <<>>
    /\ customer.tier = "bronze"
    /\ ret.status = "ok"
    /\ ret.subtotal = 200000
    /\ ret.product_discount = 0
    /\ ret.customer_tier_discount = 0
    /\ ret.tax_amount = 20000
    /\ ret.shipping_fee = 30000
    /\ ret.total = 250000

\* C10: a second call with the same cart, customer, flag and rule list, at the
\* same evaluation time, returns the breakdown the first call returned.
C10_SecondCallIdentical ==
    (/\ pc = "done"
     /\ prev.ret.status # "none"
     /\ Cardinality(prev.reads \cup reads) <= 1)
        => ret = prev.ret

\* C10 witness: the second of two identical calls at one evaluation time
\* returned, with a product discount and a tier discount in the breakdown.
C10_Witness ==
    /\ pc = "done"
    /\ prev.ret.status = "ok"
    /\ reads # {}
    /\ prev.reads = reads
    /\ ret.status = "ok"
    /\ ret.product_discount > 0
    /\ ret.customer_tier_discount > 0
    /\ ret = prev.ret

\* C14: after any sequence of add_discount_rule and calculation calls the
\* engine's rule list is exactly the sequence of rules passed to
\* add_discount_rule, in call order and with duplicates kept; the calculations
\* leave the list and every rule in it as they were.
C14_RuleListIsAddedSequence == discount_rules = added

\* C14 witness: the same rule was added twice, a call of calculate_final_price
\* has run on the list and returned, and the list holds the rule twice.
C14_Witness ==
    /\ pc = "done"
    /\ ret.status = "ok"
    /\ ret.product_discount > 0
    /\ Len(added) = 2
    /\ added[1] = added[2]
    /\ discount_rules = <<added[1], added[1]>>

\* the sum of discount_amount over the entries of item_discounts with the keys
\* `keys`
RECURSIVE SumEntries(_, _)
SumEntries(entries, keys) ==
    IF keys = {} THEN 0
    ELSE LET k == CHOOSE x \in keys : TRUE
         IN entries[k].discount_amount + SumEntries(entries, keys \ {k})

\* C17: in the report of calculate_best_discount_combination every cart item
\* with a positive best discount has its own entry in item_discounts, so
\* that total_discount equals the sum of discount_amount over the entries
\* (stated on the carts of positive quantities whose product discount stays
\* within the subtotal).
C17_EntriesSumToTotal ==
    (/\ pc = "done"
     /\ ret.status = "ok"
     /\ \A k \in 1 .. Len(cart_items) : cart_items[k].quantity > 0
     /\ ret.product_discount <= ret.subtotal)
        => LET report == ret.discount_details
           IN /\ Cardinality(DOMAIN report.item_discounts) =
                    Cardinality({k \in 1 .. Len(credited) : credited[k][1] > 0})
              /\ report.total_discount =
                    SumEntries(report.item_discounts, DOMAIN report.item_discounts)

----------------------------------------------------------------------------
(* Claims about calculate_item_discount, under SpecItem. *)

\* the six applicability conditions of a direct call, each stated on its own
ActiveAtCall ==
    /\ item_call.rule.start_date = NoDate \/ clock >= item_call.rule.start_date
    /\ item_call.rule.end_date = NoDate \/ clock <= item_call.rule.end_date
QuantityMet == item_call.cart_item.quantity >= item_call.rule.min_quantity
AmountMet ==
    item_call.cart_item.product.price * item_call.cart_item.quantity
        >= item_call.rule.min_amount
CategoryMet ==
    \/ item_call.rule.applicable_categories = {}
    \/ item_call.cart_item.product.category \in item_call.rule.applicable_categories
ProductMet ==
    \/ item_call.rule.applicable_products = {}
    \/ item_call.cart_item.product.id \in item_call.rule.applicable_products
TierMet ==
    \/ item_call.rule.customer_tiers = {}
    \/ item_call.customer.tier \in item_call.rule.customer_tiers
AllSixMet ==
    ActiveAtCall /\ QuantityMet /\ AmountMet /\ CategoryMet /\ ProductMet /\ TierMet

\* C1: for every cart item (here: of positive quantity, as the entity's
\* invariant asks), rule and customer, the discount calculate_item_discount
\* returns is at most the item's subtotal price * quantity.
C1_DiscountWithinSubtotal ==
    (item_call.called /\ ~item_call.ret.raised /\ item_call.cart_item.quantity > 0)
        => item_call.ret.value
              <= item_call.cart_item.product.price * item_call.cart_item.quantity

\* C2: the discount calculate_item_discount returns is at most the rule's
\* max_discount; a 20% percentage rule that applies to a subtotal of 1,000,000
\* with max_discount 150,000 returns 150,000.
C2_DiscountWithinCap ==
    item_call.called /\ ~item_call.ret.raised
        => /\ item_call.ret.value <= item_call.rule.max_discount
           /\ (/\ AllSixMet
               /\ item_call.rule.discount_type = "percentage"
               /\ item_call.rule.value = 20
               /\ item_call.rule.max_discount = 150000
               /\ item_call.cart_item.product.price * item_call.cart_item.quantity = 1000000)
                  => item_call.ret.value = 150000

\* C2 witness: the 20% rule has been applied to the 1,000,000 item and the cap
\* of 150,000 cut the 200,000 it computed.
C2_Witness ==
    /\ item_call.called
    /\ AllSixMet
    /\ item_call.rule.discount_type = "percentage"
    /\ item_call.rule.value = 20
    /\ item_call.rule.max_discount = 150000
    /\ item_call.cart_item = CartItem(Phone, 2)
    /\ item_call.ret = Return(150000)

\* C6: a rule whose end_date is set and strictly before its start_date is
\* inactive at every evaluation time, and its discount is 0 for every item and
\* customer.
C6_InvertedWindowInactive ==
    (/\ item_call.rule.end_date # NoDate
     /\ item_call.rule.start_date # NoDate
     /\ item_call.rule.end_date < item_call.rule.start_date)
        => /\ ~is_active(item_call.rule, clock)
           /\ item_call.called => item_call.ret = Return(0)

\* C6 witness: a call at or after the start_date of an inverted window, on an
\* item every other condition admits and the type formula would discount.
C6_Witness ==
    /\ item_call.called
    /\ item_call.rule.end_date # NoDate
    /\ item_call.rule.end_date < item_call.rule.start_date
    /\ clock >= item_call.rule.start_date
    /\ QuantityMet /\ AmountMet /\ CategoryMet /\ ProductMet /\ TierMet
    /\ item_call.rule.discount_type = "fixed_amount"
    /\ item_call.cart_item.quantity > 0
    /\ item_call.ret = Return(0)

\* C7: calculate_item_discount returns 0 whenever one of the six applicability
\* conditions fails, and returns the outcome of the type formula (cut at
\* max_discount) when all six hold.
C7_ZeroUnlessApplicable ==
    item_call.called
        => /\ ~AllSixMet => item_call.ret = Return(0)
           /\ AllSixMet =>
                LET d == TypeDiscount(item_call.cart_item, item_call.rule)
                IN item_call.ret =
                      IF d.raised THEN Raise
                      ELSE Return(IF d.value < item_call.rule.max_discount
                                  THEN d.value ELSE item_call.rule.max_discount)

\* C7 witness: only the customer-tier condition fails, on a rule whose formula
\* would discount the item, and the call returned 0.
C7_Witness ==
    /\ item_call.called
    /\ ~TierMet
    /\ ActiveAtCall /\ QuantityMet /\ AmountMet /\ CategoryMet /\ ProductMet
    /\ item_call.rule.discount_type = "percentage"
    /\ item_call.cart_item.quantity > 0
    /\ item_call.ret = Return(0)

\* C11: every call of calculate_item_discount on a buy-X-get-Y rule, a rule
\* whose buy_quantity is the default 0 included, completes with a discount
\* value and never ends in an arithmetic fault such as a division by zero
\* (stated on the items of positive quantity).
C11_NoArithmeticFault ==
    (/\ item_call.called
     /\ item_call.rule.discount_type = "buy_x_get_y"
     /\ item_call.cart_item.quantity > 0)
        => ~item_call.ret.raised

----------------------------------------------------------------------------
(* Claims about calculate_shipping_fee, under SpecShip. *)

\* the brackets of shipping_rates that a subtotal falls in
MatchingBrackets(sub) ==
    {k \in 1 .. Len(shipping_rates) :
        shipping_rates[k][1] <= sub /\ sub < shipping_rates[k][2]}

\* C12: for every subtotal >= 0 exactly one shipping bracket matches, and
\* calculate_shipping_fee returns that bracket's base fee (50,000 below
\* 200,000; 30,000 from 200,000 and below 500,000; 0 from 500,000) plus
\* (weight - 5) * 10,000 when weight > 5 and plus nothing when weight <= 5.
C12_ShippingFee ==
    (ship_call.called /\ ship_call.subtotal >= 0)
        => /\ Cardinality(MatchingBrackets(ship_call.subtotal)) = 1
           /\ ship_call.ret =
                 (IF ship_call.subtotal < 200000 THEN 50000
                  ELSE IF ship_call.subtotal < 500000 THEN 30000
                  ELSE 0)
                 + (IF ship_call.weight > 5 THEN (ship_call.weight - 5) * 10000 ELSE 0)

\* C12 witness: a parcel of 7 kg on the lower end of the middle bracket paid
\* 30,000 and 20,000 for the 2 kg above 5.
C12_Witness ==
    /\ ship_call.called
    /\ ship_call.subtotal = 200000
    /\ ship_call.weight = 7
    /\ MatchingBrackets(ship_call.subtotal) = {2}
    /\ ship_call.ret = 50000

----------------------------------------------------------------------------
(* Claims about concurrent callers, under SpecCallers. *)

\* C13: when several callers run calculate_final_price concurrently on one
\* engine and no rule is added during the calls, every call returns, under
\* every interleaving of the calls' steps, the breakdown it returns when run
\* alone, and the rule list it observes is the one it started with.
C13_ConcurrentCallsIsolated ==
    \A c \in Callers :
        /\ calls[c].pc # "idle" => calls[c].rules_seen = discount_rules
        /\ calls[c].pc = "done"
              => calls[c].ret = PriceAt(calls[c].cart_items, calls[c].customer,
                                        calls[c].apply_customer_discount,
                                        discount_rules, clock)

\* C13 witness: two callers with different carts have both returned a
\* breakdown with a product discount, each having taken steps while the other
\* was inside its call.
C13_Witness ==
    /\ calls[1].pc = "done" /\ calls[2].pc = "done"
    /\ calls[1].overlapped /\ calls[2].overlapped
    /\ calls[1].cart_items # calls[2].cart_items
    /\ calls[1].ret.status = "ok" /\ calls[2].ret.status = "ok"
    /\ calls[1].ret.product_discount > 0
    /\ calls[2].ret.product_discount > calls[1].ret.product_discount

----------------------------------------------------------------------------
(* Claims about the type formulas of calculate_item_discount, under SpecItem. *)

\* C15: for an applicable buy-X-get-Y rule (buy_quantity >= 1) and an item
\* with quantity >= buy_quantity, the free units are floor(quantity /
\* buy_quantity) * get_quantity, at most quantity, and the discount before the
\* cap is free units * unit price (buy 2, get 1, quantity 4: 2 free units);
\* for quantity < buy_quantity the discount is 0.
C15_BuyXGetY ==
    (/\ item_call.called
     /\ AllSixMet
     /\ item_call.rule.discount_type = "buy_x_get_y"
     /\ item_call.rule.buy_quantity >= 1)
        => LET q == item_call.cart_item.quantity
               b == item_call.rule.buy_quantity
               g == item_call.rule.get_quantity
               price == item_call.cart_item.product.price
               free == IF (q \div b) * g <= q THEN (q \div b) * g ELSE q
               before == IF q >= b THEN free * price ELSE 0
           IN /\ ~item_call.ret.raised
              /\ item_call.ret.value =
                    IF before <= item_call.rule.max_discount
                    THEN before ELSE item_call.rule.max_discount
              /\ (b = 2 /\ g = 1 /\ q = 4 /\ item_call.rule.max_discount = Inf)
                    => item_call.ret.value = 2 * price

\* C15 witness: buy 2 get 1 on a Book four times returned two free Books.
C15_Witness ==
    /\ item_call.called
    /\ AllSixMet
    /\ item_call.rule.discount_type = "buy_x_get_y"
    /\ item_call.rule.buy_quantity = 2
    /\ item_call.rule.get_quantity = 1
    /\ item_call.cart_item = CartItem(Book, 4)
    /\ item_call.ret = Return(200000)

\* C16: for an applicable tiered rule the discount before the cap is
\* subtotal * percent / 100, with percent that of the highest threshold the
\* subtotal meets or exceeds, and 0 when it meets none; it is never the sum
\* over several met tiers ({10,000,000: 5, 20,000,000: 10} on 25,000,000
\* gives 2,500,000).
C16_TieredHighestThreshold ==
    (/\ item_call.called
     /\ AllSixMet
     /\ item_call.rule.discount_type = "tiered")
        => LET sub == item_call.cart_item.product.price * item_call.cart_item.quantity
               met == {p \in item_call.rule.tier_thresholds : sub >= p[1]}
               top == CHOOSE p \in met : \A o \in met : o[1] <= p[1]
               before == IF met = {} THEN 0 ELSE (sub * top[2]) \div 100
           IN /\ item_call.ret =
                    Return(IF before <= item_call.rule.max_discount
                           THEN before ELSE item_call.rule.max_discount)
              /\ (/\ item_call.rule.tier_thresholds = {<<10000000, 5>>, <<20000000, 10>>}
                  /\ sub = 25000000)
                    => item_call.ret.value = 2500000

\* C16 witness: the rule {10,000,000: 5, 20,000,000: 10} on two Laptops, a
\* subtotal of 25,000,000 that meets both thresholds, returned 2,500,000.
C16_Witness ==
    /\ item_call.called
    /\ AllSixMet
    /\ item_call.rule.tier_thresholds = {<<10000000, 5>>, <<20000000, 10>>}
    /\ item_call.rule.discount_type = "tiered"
    /\ item_call.cart_item = CartItem(Laptop, 2)
    /\ item_call.ret = Return(2500000)

----------------------------------------------------------------------------
(* Claims about loyalty_point_calculation, under SpecPoints. *)

\* the tier multipliers of the specification, in tenths
TierTenths(tier) ==
    CASE tier = "bronze" -> 10
      [] tier = "silver" -> 12
      [] tier = "gold" -> 15
      [] tier = "platinum" -> 20
      [] tier = "vip" -> 30

\* C18: loyalty_point_calculation(amount, tier, bonus) returns
\* floor(floor(amount / 1000) * tier multiplier * bonus multiplier), with the
\* multipliers 1.0, 1.2, 1.5, 2.0, 3.0 of Bronze, Silver, Gold, Platinum, VIP.
C18_LoyaltyPoints ==
    points_call.called
        => points_call.ret =
              ((points_call.amount_spent \div 1000) * TierTenths(points_call.tier)
                  * points_call.bonus_multiplier.n)
                 \div (10 * points_call.bonus_multiplier.d)

----------------------------------------------------------------------------
(* Claims about FinanceApp, under SpecFinance. *)

\* C19: starting from an empty store, after any sequence of add_transaction,
\* update_transaction and delete_transaction all stored transactions have
\* pairwise distinct ids, and a newly added transaction has an id strictly
\* greater than every id stored at the moment it was added.
C19_DistinctIncreasingIds ==
    /\ \A i, j \in 1 .. Len(transactions) :
           i # j => transactions[i].id # transactions[j].id
    /\ last_op.op = "add"
          => /\ transactions[Len(transactions)].id = last_op.id
             /\ \A i \in last_op.before : last_op.id > i

\* C19 witness: transaction 1 was deleted, the remaining transaction 2 was
\* updated to the amount 120,000, and the transaction added after that
\* received the id 3.
C19_Witness ==
    /\ last_op = [op |-> "add", id |-> 3, before |-> {2}]
    /\ Len(transactions) = 2
    /\ transactions[1].id = 2
    /\ transactions[1].amount = 120000
    /\ transactions[2].id = 3
    /\ transactions[2].amount = 50000
    /\ data_file = [exists |-> TRUE, data |-> transactions]

====
